---- MODULE Spec2Model ----
(***************************************************************************)
(* The Bibbox frontend: the App component of the react application        *)
(* (src/README.md, lines 160-420).  The App keeps a token in the          *)
(* browser's localStorage, negotiates a session over a socket, relays     *)
(* user actions to the engine and resets the session when the user is     *)
(* idle.  Every socket handler, the user action handler and the idle      *)
(* handler run to completion in the browser's single event loop, so each  *)
(* is one action here.  SpecSteps has two of the step components that     *)
(* Bibbox shows (src/assets/js/steps), with handleAction as their         *)
(* actionHandler.                                                          *)
(***************************************************************************)
EXTENDS Integers, Sequences, FiniteSets

(***************************************************************************)
(* Bounds of the model.                                                    *)
(***************************************************************************)
\* The clock runs from StartMs to MaxNowMs, in steps of TickMs milliseconds.
StartMs == 9000
MaxNowMs == 10500
TickMs == 500
\* Expire timestamps (seconds) the engine may issue, or a previous session
\* may have left in localStorage: MinExpire .. MaxExpire.
MinExpire == 9
MaxExpire == 11

UniqueIds == {"A", "B"}
Tokens == {"T1", "T2"}
Expires == MinExpire..MaxExpire
TimeOuts == {500, 1000}
Steps == {"initial", "loginScan"}
LanguageCodes == {"da", "fr"}

(***************************************************************************)
(* JavaScript values.                                                      *)
(***************************************************************************)
\* The value undefined (useState() without argument, a missing argument).
Undefined == [undefined |-> TRUE]
\* The boolean false that getToken returns when there is no usable token.
False == "<false>"
\* parseInt's NaN.  A parsed number n is <<n>>, NaN is the empty tuple.
NaN == << >>
\* localStorage.getItem's null.  A stored string s is <<s>>.
Null == << >>

Digits == <<"0", "1", "2", "3", "4", "5", "6", "7", "8", "9">>

\* String(n) for a number n >= 0: its decimal digits, as localStorage.setItem
\* stores a number (strings are sequences of characters).
RECURSIVE toString(_)
toString(n) ==
    IF n < 10 THEN << Digits[n + 1] >>
    ELSE toString(n \div 10) \o << Digits[(n % 10) + 1] >>

DigitValue(c) == CHOOSE d \in 0..9 : Digits[d + 1] = c
IsDigit(c) == \E d \in 0..9 : Digits[d + 1] = c

\* The value of the longest prefix of decimal digits of s, given the value
\* acc of the digits read so far.
RECURSIVE ParseDigits(_, _)
ParseDigits(s, acc) ==
    IF s = << >> \/ ~IsDigit(Head(s)) THEN acc
    ELSE ParseDigits(Tail(s), 10 * acc + DigitValue(Head(s)))

\* parseInt(item) for an item read from localStorage: NaN for null (parseInt
\* reads the string "null") and for a string that does not start with a digit.
ParseInt(item) ==
    IF item = Null THEN NaN
    ELSE IF item[1] = << >> \/ ~IsDigit(Head(item[1])) THEN NaN
    ELSE << ParseDigits(item[1], 0) >>

\* a <= b for a parsed number a and a number b; every comparison with NaN is
\* false.
LessEq(a, b) == a # NaN /\ a[1] <= b

(***************************************************************************)
(* State.                                                                  *)
(***************************************************************************)
VARIABLES
    uniqueId,           \* the uniqueId prop: the configuration to load
    inactivityTimeOut,  \* the machine's inactivity timeout (ms), as the engine sends it
    pc,                 \* "start" before the setup effect has run, "running" after
    localStorage,       \* the entries token, expire and uniqueId
    nowMs,              \* Date.now()
    machineState,       \* useState: the machine state, Undefined before the first update
    boxConfig,          \* useState: the configuration, Undefined before the first one
    messages,           \* useState: the active translations
    language,           \* useState: the locale given to IntlProvider
    pendingLoads,       \* the import() promises of loadTranslations not yet resolved
    idleTimer,          \* the IdleTimer component: mounted, idle, deadline
    emitted,            \* the messages the last handler emitted on the socket
    alerted,            \* whether the last handler raised the access denied alert
    lastEvent,          \* the event the last handler handled
    stored,             \* the arguments of the storeToken call whose entries localStorage holds
    lastSend,           \* Date.now() of the last action handleAction sent, NoSend before
    idleResets          \* the Resets handleIdle emitted: period, since the last state
                        \* update or action sent; quiet, since the user last touched
                        \* the document as well

\* The step component that Bibbox shows (src/assets/js/steps).
VARIABLES
    barcodeConstants,   \* BARCODE_COMMAND_LENGTH and BARCODE_COMMAND_FINISH, as imported
    component,          \* the step component shown, "none" while none is modelled
    username,           \* ScanPasswordLogin, useState: the scanned username
    password,           \* ScanPasswordLogin, useState: the password typed so far
    usernameScanned,    \* ScanPasswordLogin, useState: a username has been scanned
    keydownListener,    \* the state that the enterFunction registered on window closes over
    lastInput           \* the input the step component handled last

stepVars == << barcodeConstants, component, username, password, usernameScanned,
               keydownListener, lastInput >>

vars == << uniqueId, inactivityTimeOut, pc, localStorage, nowMs, machineState,
           boxConfig, messages, language, pendingLoads, idleTimer, emitted,
           alerted, lastEvent, stored, lastSend, idleResets, barcodeConstants, component,
           username, password, usernameScanned, keydownListener, lastInput >>

(***************************************************************************)
(* Token store.                                                            *)
(***************************************************************************)
EmptyStorage == [token |-> Null, expire |-> Null, uniqueId |-> Null]

\* storeToken without the uniqueId entry.
storeTokenNoId(token, expire, uid) ==
    [token |-> << token >>, expire |-> << toString(expire) >>, uniqueId |-> Null]

\* storeToken without the expire entry.
storeTokenNoExpire(token, expire, uid) ==
    [token |-> << token >>, expire |-> Null, uniqueId |-> << uid >>]

storeToken(token, expire, uid) ==
    [token |-> << token >>, expire |-> << toString(expire) >>, uniqueId |-> << uid >>]

removeToken == EmptyStorage

\* getToken that does not look at the expire entry.
getTokenIgnoresExpire(ls, ms) ==
    IF ls.token # Null THEN ls.token[1] ELSE False

\* getToken with a token that is still good in the second it expires.
getTokenLate(ls, ms) ==
    LET now == ms \div 1000
        expire == ParseInt(ls.expire)
    IN  IF expire # NaN /\ expire[1] < now THEN False
        ELSE IF ls.token # Null THEN ls.token[1] ELSE False

\* parseInt never returns null, so the test expire === null is always false
\* and only the comparison decides; parseInt(expire) of the number expire is
\* expire again (NaN for NaN).
getToken(ls, ms) ==
    LET now == ms \div 1000
        expire == ParseInt(ls.expire)
    IN  IF LessEq(expire, now) THEN False
        ELSE IF ls.token # Null THEN ls.token[1] ELSE False

(***************************************************************************)
(* Socket messages.                                                        *)
(***************************************************************************)
GetTokenMsg(uid) == [name |-> "GetToken", uniqueId |-> uid]
ClientReadyMsg(token) == [name |-> "ClientReady", token |-> token]
\* A Reset event that carries no token.
ResetMsgNoToken(token) == [name |-> "ClientEvent", event |-> [name |-> "Reset"]]

ResetMsg(token) == [name |-> "ClientEvent", event |-> [name |-> "Reset", token |-> token]]
\* An Action event that goes out under the name of a Reset.
ActionMsgAsReset(action, token, data) ==
    [name |-> "ClientEvent", event |-> [name |-> "Reset", token |-> token]]

ActionMsg(action, token, data) ==
    [name |-> "ClientEvent",
     event |-> [name |-> "Action", action |-> action, token |-> token, data |-> data]]

(***************************************************************************)
(* Idle timer.                                                             *)
(***************************************************************************)
NoSend == -1

NoResets == [period |-> 0, quiet |-> 0]

NoTimer == [mounted |-> FALSE, idle |-> FALSE, deadline |-> 0]

\* A reset that takes the timeout for the deadline.
resetTimerNoClock(ms, bc) ==
    [mounted |-> TRUE, idle |-> FALSE, deadline |-> bc.inactivityTimeOut]

\* IdleTimer's reset(): back to active, the countdown restarts in full.  The
\* countdown is the timeout prop, boxConfig.inactivityTimeOut.
resetTimer(ms, bc) ==
    [mounted |-> TRUE, idle |-> FALSE, deadline |-> ms + bc.inactivityTimeOut]

\* A guard that never finds the timer.
resetIfMountedNever(tmr, ms, bc) == tmr

\* idleTimerRef.current !== null guards every reset.
resetIfMounted(tmr, ms, bc) ==
    IF tmr.mounted THEN resetTimer(ms, bc) ELSE tmr

\* The render: the timer and Bibbox exist once both states are set; the timer
\* starts its countdown when it is mounted.
render(ms, bc, tmr, state) ==
    IF state # Undefined /\ bc # Undefined /\ ~tmr.mounted
    THEN resetTimer(ms, bc)
    ELSE tmr

\* What App's render shows: the idle timer and Bibbox when the machine state
\* and the configuration are both set, the loading screen when both are unset.
MainShown == machineState # Undefined /\ boxConfig # Undefined
LoadingShown == machineState = Undefined /\ boxConfig = Undefined

\* The closure of a render of ScanPasswordLogin: the state its functions read.
Closure(u, p, scanned) == [username |-> u, password |-> p, usernameScanned |-> scanned]

\* No step component is shown, and none of the steps' modules is loaded.
NoStep ==
    /\ barcodeConstants = [BARCODE_COMMAND_LENGTH |-> 0, BARCODE_COMMAND_FINISH |-> ""]
    /\ component = "none"
    /\ username = ""
    /\ password = ""
    /\ usernameScanned = FALSE
    /\ keydownListener = Closure("", "", FALSE)
    /\ lastInput = [kind |-> "none"]

Init ==
    /\ uniqueId \in UniqueIds
    /\ inactivityTimeOut \in TimeOuts
    /\ pc = "start"
    /\ \/ /\ localStorage = EmptyStorage
          /\ stored = Undefined
       \/ \E t \in Tokens, e \in Expires, u \in UniqueIds :
             /\ localStorage = storeToken(t, e, u)
             /\ stored = [token |-> t, expire |-> e, uniqueId |-> u]
    /\ nowMs = StartMs
    /\ machineState = Undefined
    /\ boxConfig = Undefined
    /\ messages = Undefined
    /\ language = "en"
    /\ pendingLoads = {}
    /\ idleTimer = NoTimer
    /\ emitted = << >>
    /\ alerted = FALSE
    /\ lastEvent = [kind |-> "none"]
    /\ lastSend = NoSend
    /\ idleResets = NoResets
    /\ NoStep

\* Time passes.
Tick ==
    /\ nowMs + TickMs <= MaxNowMs
    /\ nowMs' = nowMs + TickMs
    /\ UNCHANGED stepVars
    /\ UNCHANGED << uniqueId, inactivityTimeOut, pc, localStorage, machineState,
                    boxConfig, messages, language, pendingLoads, idleTimer,
                    emitted, alerted, lastEvent, stored, lastSend, idleResets >>

\* The setup effect that requests a token even when it resumes with one.
MountRequestsToo ==
    /\ pc = "start"
    /\ LET differs == localStorage.uniqueId # << uniqueId >>
           ls == IF differs THEN removeToken ELSE localStorage
           token == getToken(ls, nowMs)
       IN  /\ localStorage' = ls
           /\ stored' = IF differs THEN Undefined ELSE stored
           /\ emitted' = IF token = False THEN << GetTokenMsg(uniqueId) >>
                         ELSE << GetTokenMsg(uniqueId), ClientReadyMsg(token) >>
    /\ pc' = "running"
    /\ alerted' = FALSE
    /\ lastEvent' = [kind |-> "mount"]
    /\ UNCHANGED stepVars
    /\ UNCHANGED << uniqueId, inactivityTimeOut, nowMs, machineState, boxConfig,
                    messages, language, pendingLoads, idleTimer, lastSend,
                    idleResets >>

\* The setup effect without the removal of another configuration's token.
MountKeepsToken ==
    /\ pc = "start"
    /\ LET token == getToken(localStorage, nowMs)
       IN  emitted' = IF token = False THEN << GetTokenMsg(uniqueId) >>
                      ELSE << ClientReadyMsg(token) >>
    /\ pc' = "running"
    /\ alerted' = FALSE
    /\ lastEvent' = [kind |-> "mount"]
    /\ UNCHANGED stepVars
    /\ UNCHANGED << uniqueId, inactivityTimeOut, nowMs, machineState, boxConfig,
                    messages, language, pendingLoads, idleTimer, lastSend,
                    localStorage, stored, idleResets >>

\* The setup effect, up to the registration of the handlers.
Mount ==
    /\ pc = "start"
    /\ LET differs == localStorage.uniqueId # << uniqueId >>
           ls == IF differs THEN removeToken ELSE localStorage
           token == getToken(ls, nowMs)
       IN  /\ localStorage' = ls
           /\ stored' = IF differs THEN Undefined ELSE stored
           /\ emitted' = IF token = False THEN << GetTokenMsg(uniqueId) >>
                         ELSE << ClientReadyMsg(token) >>
    /\ pc' = "running"
    /\ alerted' = FALSE
    /\ lastEvent' = [kind |-> "mount"]
    /\ UNCHANGED stepVars
    /\ UNCHANGED << uniqueId, inactivityTimeOut, nowMs, machineState, boxConfig,
                    messages, language, pendingLoads, idleTimer, lastSend,
                    idleResets >>

\* A Token handler that signals ready with the token it had before.
OnTokenStale(data) ==
    /\ pc = "running"
    /\ localStorage' = storeToken(data.token, data.expire, uniqueId)
    /\ emitted' = << ClientReadyMsg(getToken(localStorage, nowMs)) >>
    /\ alerted' = FALSE
    /\ lastEvent' = [kind |-> "Token", data |-> data]
    /\ stored' = [token |-> data.token, expire |-> data.expire, uniqueId |-> uniqueId]
    /\ UNCHANGED stepVars
    /\ UNCHANGED << uniqueId, inactivityTimeOut, pc, nowMs, machineState, boxConfig,
                    messages, language, pendingLoads, idleTimer, lastSend,
                    idleResets >>

\* socket.on('Token'): the engine issues a token.
OnToken(data) ==
    /\ pc = "running"
    /\ localStorage' = storeToken(data.token, data.expire, uniqueId)
    /\ emitted' = << ClientReadyMsg(data.token) >>
    /\ alerted' = FALSE
    /\ lastEvent' = [kind |-> "Token", data |-> data]
    /\ stored' = [token |-> data.token, expire |-> data.expire, uniqueId |-> uniqueId]
    /\ UNCHANGED stepVars
    /\ UNCHANGED << uniqueId, inactivityTimeOut, pc, nowMs, machineState, boxConfig,
                    messages, language, pendingLoads, idleTimer, lastSend,
                    idleResets >>

\* A reconnect handler that requests a new token when it finds none.
OnReconnectRetries ==
    /\ pc = "running"
    /\ LET token == getToken(localStorage, nowMs)
       IN  IF token = False
           THEN /\ alerted' = TRUE
                /\ emitted' = << GetTokenMsg(uniqueId) >>
           ELSE /\ alerted' = FALSE
                /\ emitted' = << ClientReadyMsg(token) >>
    /\ lastEvent' = [kind |-> "reconnect"]
    /\ UNCHANGED stepVars
    /\ UNCHANGED << uniqueId, inactivityTimeOut, pc, localStorage, nowMs, machineState,
                    boxConfig, messages, language, pendingLoads, idleTimer, stored,
                    lastSend, idleResets >>

\* A reconnect handler that sends ClientReady whatever getToken returns.
OnReconnectUnchecked ==
    /\ pc = "running"
    /\ alerted' = FALSE
    /\ emitted' = << ClientReadyMsg(getToken(localStorage, nowMs)) >>
    /\ lastEvent' = [kind |-> "reconnect"]
    /\ UNCHANGED stepVars
    /\ UNCHANGED << uniqueId, inactivityTimeOut, pc, localStorage, nowMs, machineState,
                    boxConfig, messages, language, pendingLoads, idleTimer, stored,
                    lastSend, idleResets >>

\* socket.on('reconnect').
OnReconnect ==
    /\ pc = "running"
    /\ LET token == getToken(localStorage, nowMs)
       IN  IF token = False
           THEN /\ alerted' = TRUE
                /\ emitted' = << >>
           ELSE /\ alerted' = FALSE
                /\ emitted' = << ClientReadyMsg(token) >>
    /\ lastEvent' = [kind |-> "reconnect"]
    /\ UNCHANGED stepVars
    /\ UNCHANGED << uniqueId, inactivityTimeOut, pc, localStorage, nowMs, machineState,
                    boxConfig, messages, language, pendingLoads, idleTimer, stored,
                    lastSend, idleResets >>

\* loadTranslations without the fallback to english.
loadTranslationsNoFallback(languageCode) ==
    [bundle |-> languageCode, languageCode |-> languageCode]

\* The module that import() resolves to for the file <code>-comp.json.
Bundle(code) == [file |-> code]

\* loadTranslations: the bundle to import, and the language code handed on to
\* activateTranslations when the import resolves.
loadTranslations(languageCode) ==
    LET supportedLanguageCodes == {"da", "en"}
        selectedLanguageCode ==
            IF languageCode \in supportedLanguageCodes THEN languageCode ELSE "en"
    IN  [bundle |-> selectedLanguageCode, languageCode |-> languageCode]

\* socket.on('Configuration').
OnConfiguration(data) ==
    /\ pc = "running"
    /\ pendingLoads' = pendingLoads \cup {loadTranslations(data.defaultLanguageCode)}
    /\ boxConfig' = data
    /\ idleTimer' = render(nowMs, data, idleTimer, machineState)
    /\ emitted' = << >>
    /\ alerted' = FALSE
    /\ lastEvent' = [kind |-> "Configuration", data |-> data]
    /\ UNCHANGED stepVars
    /\ UNCHANGED << uniqueId, inactivityTimeOut, pc, localStorage, nowMs, machineState,
                    messages, language, stored, lastSend, idleResets >>

\* The import() of loadTranslations resolves: activateTranslations.
TranslationsLoaded(load) ==
    /\ load \in pendingLoads
    /\ pendingLoads' = pendingLoads \ {load}
    /\ messages' = Bundle(load.bundle)
    /\ language' = load.languageCode
    /\ emitted' = << >>
    /\ alerted' = FALSE
    /\ lastEvent' = [kind |-> "translations"]
    /\ UNCHANGED stepVars
    /\ UNCHANGED << uniqueId, inactivityTimeOut, pc, localStorage, nowMs, machineState,
                    boxConfig, idleTimer, stored, lastSend, idleResets >>

\* An UpdateState handler that leaves the idle timer alone.
OnUpdateStateNoReset(data) ==
    /\ pc = "running"
    /\ machineState' = data
    /\ idleTimer' = render(nowMs, boxConfig, idleTimer, data)
    /\ emitted' = << >>
    /\ alerted' = FALSE
    /\ lastEvent' = [kind |-> "UpdateState", data |-> data]
    /\ idleResets' = NoResets
    /\ UNCHANGED stepVars
    /\ UNCHANGED << uniqueId, inactivityTimeOut, pc, localStorage, nowMs, boxConfig,
                    messages, language, pendingLoads, stored, lastSend >>

\* socket.on('UpdateState').
OnUpdateState(data) ==
    /\ pc = "running"
    /\ machineState' = data
    /\ idleTimer' = render(nowMs, boxConfig,
                           resetIfMounted(idleTimer, nowMs, boxConfig), data)
    /\ emitted' = << >>
    /\ alerted' = FALSE
    /\ lastEvent' = [kind |-> "UpdateState", data |-> data]
    /\ idleResets' = NoResets
    /\ UNCHANGED stepVars
    /\ UNCHANGED << uniqueId, inactivityTimeOut, pc, localStorage, nowMs, boxConfig,
                    messages, language, pendingLoads, stored, lastSend >>

\* handleAction that resets the idle timer before it looks for the token.
handleActionResetsFirst(action, data) ==
    /\ idleTimer.mounted
    /\ idleTimer' = resetIfMounted(idleTimer, nowMs, boxConfig)
    /\ LET token == getToken(localStorage, nowMs)
       IN  IF token = False
           THEN /\ alerted' = TRUE
                /\ emitted' = << >>
                /\ lastSend' = lastSend
                /\ idleResets' = idleResets
           ELSE /\ alerted' = FALSE
                /\ lastSend' = nowMs
                /\ idleResets' = NoResets
                /\ emitted' = IF action = "reset" THEN << ResetMsg(token) >>
                              ELSE << ActionMsg(action, token, data) >>
    /\ lastEvent' = [kind |-> "action", action |-> action, data |-> data]
    /\ UNCHANGED << uniqueId, inactivityTimeOut, pc, localStorage, nowMs, machineState,
                    boxConfig, messages, language, pendingLoads, stored >>

\* handleAction, as Bibbox calls it for the user.
handleAction(action, data) ==
    /\ idleTimer.mounted
    /\ LET token == getToken(localStorage, nowMs)
       IN  IF token = False
           THEN /\ alerted' = TRUE
                /\ emitted' = << >>
                /\ idleTimer' = idleTimer
                /\ lastSend' = lastSend
                /\ idleResets' = idleResets
           ELSE /\ alerted' = FALSE
                /\ idleTimer' = resetIfMounted(idleTimer, nowMs, boxConfig)
                /\ lastSend' = nowMs
                /\ idleResets' = NoResets
                /\ emitted' = IF action = "reset" THEN << ResetMsg(token) >>
                              ELSE << ActionMsg(action, token, data) >>
    /\ lastEvent' = [kind |-> "action", action |-> action, data |-> data]
    /\ UNCHANGED << uniqueId, inactivityTimeOut, pc, localStorage, nowMs, machineState,
                    boxConfig, messages, language, pendingLoads, stored >>

\* An idle timer that keeps running after it has expired, so that handleIdle is
\* called again and again.
handleIdleRepeats ==
    /\ idleTimer.mounted
    /\ nowMs >= idleTimer.deadline
    /\ LET token == getToken(localStorage, nowMs)
           expired == [idleTimer EXCEPT !.idle = TRUE]
       IN  IF token = False
           THEN /\ alerted' = TRUE
                /\ emitted' = << >>
                /\ idleTimer' = expired
                /\ idleResets' = idleResets
           ELSE /\ alerted' = FALSE
                /\ IF machineState.step # "initial"
                   THEN /\ emitted' = << ResetMsg(token) >>
                        /\ idleTimer' = expired
                        /\ idleResets' = [period |-> (idleResets.period + 1) % 4,
                                          quiet |-> (idleResets.quiet + 1) % 4]
                   ELSE /\ emitted' = << >>
                        /\ idleTimer' = resetIfMounted(expired, nowMs, boxConfig)
                        /\ idleResets' = idleResets
    /\ lastEvent' = [kind |-> "idle"]
    /\ UNCHANGED stepVars
    /\ UNCHANGED << uniqueId, inactivityTimeOut, pc, localStorage, nowMs, machineState,
                    boxConfig, messages, language, pendingLoads, stored, lastSend >>

\* handleIdle that sends the Reset before it looks for the token.
handleIdleUnchecked ==
    /\ idleTimer.mounted
    /\ ~idleTimer.idle
    /\ nowMs >= idleTimer.deadline
    /\ LET token == getToken(localStorage, nowMs)
           expired == [idleTimer EXCEPT !.idle = TRUE]
       IN  /\ alerted' = (token = False)
           /\ IF machineState.step # "initial"
              THEN /\ emitted' = << ResetMsg(token) >>
                   /\ idleTimer' = expired
                   /\ idleResets' = [period |-> idleResets.period + 1,
                                     quiet |-> idleResets.quiet + 1]
              ELSE /\ emitted' = << >>
                   /\ idleTimer' = resetIfMounted(expired, nowMs, boxConfig)
                   /\ idleResets' = idleResets
    /\ lastEvent' = [kind |-> "idle"]
    /\ UNCHANGED stepVars
    /\ UNCHANGED << uniqueId, inactivityTimeOut, pc, localStorage, nowMs, machineState,
                    boxConfig, messages, language, pendingLoads, stored, lastSend >>

\* handleIdle that puts the machine on the initial step itself.
handleIdleLocalReset ==
    /\ idleTimer.mounted
    /\ ~idleTimer.idle
    /\ nowMs >= idleTimer.deadline
    /\ LET token == getToken(localStorage, nowMs)
           expired == [idleTimer EXCEPT !.idle = TRUE]
       IN  IF token = False
           THEN /\ alerted' = TRUE
                /\ emitted' = << >>
                /\ idleTimer' = expired
                /\ idleResets' = idleResets
                /\ machineState' = machineState
           ELSE /\ alerted' = FALSE
                /\ IF machineState.step # "initial"
                   THEN /\ emitted' = << ResetMsg(token) >>
                        /\ idleTimer' = expired
                        /\ idleResets' = [period |-> idleResets.period + 1,
                                          quiet |-> idleResets.quiet + 1]
                        /\ machineState' = [machineState EXCEPT !.step = "initial"]
                   ELSE /\ emitted' = << >>
                        /\ idleTimer' = resetIfMounted(expired, nowMs, boxConfig)
                        /\ idleResets' = idleResets
                        /\ machineState' = machineState
    /\ lastEvent' = [kind |-> "idle"]
    /\ UNCHANGED stepVars
    /\ UNCHANGED << uniqueId, inactivityTimeOut, pc, localStorage, nowMs,
                    boxConfig, messages, language, pendingLoads, stored, lastSend >>

\* The idle timer expires: the timer turns idle and calls handleIdle.
handleIdle ==
    /\ idleTimer.mounted
    /\ ~idleTimer.idle
    /\ nowMs >= idleTimer.deadline
    /\ LET token == getToken(localStorage, nowMs)
           expired == [idleTimer EXCEPT !.idle = TRUE]
       IN  IF token = False
           THEN /\ alerted' = TRUE
                /\ emitted' = << >>
                /\ idleTimer' = expired
                /\ idleResets' = idleResets
           ELSE /\ alerted' = FALSE
                /\ IF machineState.step # "initial"
                   THEN /\ emitted' = << ResetMsg(token) >>
                        /\ idleTimer' = expired
                        /\ idleResets' = [period |-> idleResets.period + 1,
                                          quiet |-> idleResets.quiet + 1]
                   ELSE /\ emitted' = << >>
                        /\ idleTimer' = resetIfMounted(expired, nowMs, boxConfig)
                        /\ idleResets' = idleResets
    /\ lastEvent' = [kind |-> "idle"]
    /\ UNCHANGED stepVars
    /\ UNCHANGED << uniqueId, inactivityTimeOut, pc, localStorage, nowMs, machineState,
                    boxConfig, messages, language, pendingLoads, stored, lastSend >>

\* The user touches the document: the timer is active again and restarts.
UserActivity ==
    /\ idleTimer.mounted
    /\ idleTimer' = resetTimer(nowMs, boxConfig)
    /\ emitted' = << >>
    /\ alerted' = FALSE
    /\ lastEvent' = [kind |-> "activity"]
    /\ idleResets' = [idleResets EXCEPT !.quiet = 0]
    /\ UNCHANGED stepVars
    /\ UNCHANGED << uniqueId, inactivityTimeOut, pc, localStorage, nowMs, machineState,
                    boxConfig, messages, language, pendingLoads, stored, lastSend >>

\* The prop actionHandler of Bibbox, called by a step that is not modelled
\* further.
actionHandler(action, data) ==
    /\ handleAction(action, data)
    /\ UNCHANGED stepVars

(***************************************************************************)
(* Step components: ScanPasswordLogin (steps/login-components/             *)
(* scan-password-login.js) and ChangeLoginMethod (steps/                   *)
(* change-login-method.js).  Each gets handleAction as its actionHandler.  *)
(* The debug buttons (boxConfig.debugEnabled) are not modelled; the        *)
(* on-screen keyboard is (boxConfig.hasTouch).                             *)
(***************************************************************************)
\* The keys that type a character, and the passwords they may make up.
PasswordKeys == {"1"}
Passwords == {"", "1", "11"}

\* The codes the barcode scanner may deliver, and the values that the
\* constants module may give BARCODE_COMMAND_LENGTH and BARCODE_COMMAND_FINISH.
Codes == {"03006", "03007", "39", "C023648674"}
BarcodeConstants ==
    [BARCODE_COMMAND_LENGTH : {2, 5}, BARCODE_COMMAND_FINISH : {"03006", "39"}]
\* The keys of the on-screen keyboard, and of keydown events.
KeyboardKeys == PasswordKeys \cup {"{enter}", "{bksp}"}
EventKeys == {"Enter", "Tab"}
\* The arrays that boxConfig.loginSessionMethods may be.
LoginMethods == {"login_barcode_password", "login_barcode", "login_other"}
LoginSessionMethods ==
    {<< >>} \cup {<< a >> : a \in LoginMethods}
            \cup {m \in LoginMethods \X LoginMethods : m[1] # m[2]}
includes(array, x) == \E i \in DOMAIN array : array[i] = x

\* A handler of a step component that does not call actionHandler: App is
\* left as it is.
NoAction ==
    /\ emitted' = << >>
    /\ alerted' = FALSE
    /\ lastEvent' = [kind |-> "step"]
    /\ UNCHANGED << uniqueId, inactivityTimeOut, pc, localStorage, nowMs, machineState,
                    boxConfig, messages, language, pendingLoads, idleTimer, stored,
                    lastSend, idleResets >>

\* login, in the closure of the render it was created in.
login(closure) ==
    handleAction("login", [username |-> closure.username, password |-> closure.password])

\* The effect with the dependency [password]: the keydown listener is
\* registered again, with the enterFunction of the new render, only when the
\* password differs from that of the render before.
registered(u, p, scanned) ==
    IF p # password THEN Closure(u, p, scanned) ELSE keydownListener

\* A barcodeCallback that takes every code but the finish command for a
\* username.
barcodeCallbackNoLength(code) ==
    /\ component = "ScanPasswordLogin"
    /\ lastInput' = [kind |-> "scan", code |-> code]
    /\ IF code = barcodeConstants.BARCODE_COMMAND_FINISH
       THEN /\ handleAction("reset", Undefined)
            /\ UNCHANGED << username, usernameScanned >>
       ELSE /\ username' = code
            /\ usernameScanned' = TRUE
            /\ NoAction
    /\ UNCHANGED << barcodeConstants, component, password, keydownListener >>

\* barcodeCallback: the barcode scanner delivers a code.
barcodeCallback(code) ==
    /\ component = "ScanPasswordLogin"
    /\ lastInput' = [kind |-> "scan", code |-> code]
    /\ IF Len(code) = barcodeConstants.BARCODE_COMMAND_LENGTH
       THEN /\ IF code = barcodeConstants.BARCODE_COMMAND_FINISH
               THEN handleAction("reset", Undefined)
               ELSE NoAction
            /\ UNCHANGED << username, usernameScanned >>
       ELSE /\ username' = code
            /\ usernameScanned' = TRUE
            /\ NoAction
    /\ UNCHANGED << barcodeConstants, component, password, keydownListener >>

\* onKeyboardInput: the password Input, shown once a username is scanned,
\* changes to value.
onKeyboardInput(value) ==
    /\ component = "ScanPasswordLogin"
    /\ usernameScanned
    /\ lastInput' = [kind |-> "change", value |-> value]
    /\ password' = value
    /\ keydownListener' = registered(username, value, usernameScanned)
    /\ NoAction
    /\ UNCHANGED << barcodeConstants, component, username, usernameScanned >>

\* onInput: a key of the on-screen keyboard, shown once a username is scanned.
onInput(key) ==
    /\ component = "ScanPasswordLogin"
    /\ usernameScanned
    /\ lastInput' = [kind |-> "key", key |-> key]
    /\ IF key = "{enter}"
       THEN /\ login(Closure(username, password, usernameScanned))
            /\ UNCHANGED << password, keydownListener >>
       ELSE LET value == IF key = "{bksp}"
                         THEN IF password = "" THEN ""
                              ELSE SubSeq(password, 1, Len(password) - 1)
                         ELSE password \o key
            IN  /\ value \in Passwords
                /\ password' = value
                /\ keydownListener' = registered(username, value, usernameScanned)
                /\ NoAction
    /\ UNCHANGED << barcodeConstants, component, username, usernameScanned >>

\* enterFunction: a keydown event reaches the listener registered on window.
enterFunction(key) ==
    /\ component = "ScanPasswordLogin"
    /\ lastInput' = [kind |-> "keydown", key |-> key]
    /\ IF key = "Enter" /\ keydownListener.usernameScanned
       THEN login(keydownListener)
       ELSE NoAction
    /\ UNCHANGED << barcodeConstants, component, username, password, usernameScanned,
                    keydownListener >>

\* ChangeLoginMethod that offers both login methods whatever is enabled.
componentsUnfiltered(loginSessionMethods) ==
    << [type |-> "loginScanUsernamePassword",
        label |-> IF Len(loginSessionMethods) > 1
                  THEN "ChangeLoginMethodUsernamePassword"
                  ELSE "ChangeLoginMethodStartHere"],
       [type |-> "loginScanUsername",
        label |-> IF Len(loginSessionMethods) > 1
                  THEN "ChangeLoginMethodUsername"
                  ELSE "ChangeLoginMethodStartHere"] >>

\* ChangeLoginMethod: the entries it renders, in order.
components(loginSessionMethods) ==
    (IF includes(loginSessionMethods, "login_barcode_password")
     THEN << [type |-> "loginScanUsernamePassword",
              label |-> IF Len(loginSessionMethods) > 1
                        THEN "ChangeLoginMethodUsernamePassword"
                        ELSE "ChangeLoginMethodStartHere"] >>
     ELSE << >>)
    \o
    (IF includes(loginSessionMethods, "login_barcode")
     THEN << [type |-> "loginScanUsername",
              label |-> IF Len(loginSessionMethods) > 1
                        THEN "ChangeLoginMethodUsername"
                        ELSE "ChangeLoginMethodStartHere"] >>
     ELSE << >>)

\* handleChangeLoginMethod.
handleChangeLoginMethod(loginMethod) ==
    handleAction("selectLoginMethod", [loginMethod |-> loginMethod])

\* onClick of the Bubble of the i-th entry.
onClick(i) ==
    /\ component = "ChangeLoginMethod"
    /\ i \in DOMAIN components(boxConfig.loginSessionMethods)
    /\ LET entry == components(boxConfig.loginSessionMethods)[i]
       IN  /\ lastInput' = [kind |-> "click", type |-> entry.type]
           /\ handleChangeLoginMethod(entry.type)
    /\ UNCHANGED << barcodeConstants, component, username, password, usernameScanned,
                    keydownListener >>

\* A step component has just been shown: the session is set up (the token
\* of a Token message is stored, a Configuration and an UpdateState have
\* arrived, the translations are loaded), and the component is in its
\* initial state.
InitSteps ==
    /\ uniqueId \in UniqueIds
    /\ inactivityTimeOut \in TimeOuts
    /\ pc = "running"
    /\ \E e \in Expires :
          /\ localStorage = storeToken("T1", e, uniqueId)
          /\ stored = [token |-> "T1", expire |-> e, uniqueId |-> uniqueId]
    /\ nowMs = StartMs
    /\ machineState = [step |-> "loginScan"]
    /\ \E methods \in LoginSessionMethods :
          boxConfig = [defaultLanguageCode |-> "da",
                       inactivityTimeOut |-> inactivityTimeOut,
                       loginSessionMethods |-> methods]
    /\ messages = Bundle("da")
    /\ language = "da"
    /\ pendingLoads = {}
    /\ idleTimer = resetTimer(StartMs, boxConfig)
    /\ emitted = << >>
    /\ alerted = FALSE
    /\ lastEvent = [kind |-> "UpdateState", data |-> machineState]
    /\ lastSend = NoSend
    /\ idleResets = NoResets
    /\ barcodeConstants \in BarcodeConstants
    /\ component \in {"ScanPasswordLogin", "ChangeLoginMethod"}
    /\ username = ""
    /\ password = ""
    /\ usernameScanned = FALSE
    /\ keydownListener = Closure("", "", FALSE)
    /\ lastInput = [kind |-> "none"]

NextSteps ==
    \/ \E code \in Codes : barcodeCallback(code)
    \/ \E value \in Passwords : onKeyboardInput(value)
    \/ \E key \in KeyboardKeys : onInput(key)
    \/ \E key \in EventKeys : enterFunction(key)
    \/ \E i \in 1..2 : onClick(i)

SpecSteps == InitSteps /\ [][NextSteps]_vars

\* What the engine and the user may send.
TokenData == [token : Tokens, expire : Expires]
ConfigurationData == [defaultLanguageCode : LanguageCodes, inactivityTimeOut : {inactivityTimeOut}]
StateData == [step : Steps]
Actions == {"reset", "login"}
ActionData == {Undefined, [username |-> "u1", password |-> "p1"]}

Next ==
    \/ Tick
    \/ Mount
    \/ \E data \in TokenData : OnToken(data)
    \/ OnReconnect
    \/ \E data \in ConfigurationData : OnConfiguration(data)
    \/ \E load \in pendingLoads : TranslationsLoaded(load)
    \/ \E data \in StateData : OnUpdateState(data)
    \/ \E action \in Actions, data \in ActionData : actionHandler(action, data)
    \/ handleIdle
    \/ UserActivity

Spec == Init /\ [][Next]_vars

\* The client when the engine never issues a token.
NextNoToken ==
    \/ Tick
    \/ Mount
    \/ OnReconnect
    \/ \E data \in ConfigurationData : OnConfiguration(data)
    \/ \E load \in pendingLoads : TranslationsLoaded(load)
    \/ \E data \in StateData : OnUpdateState(data)
    \/ \E action \in Actions, data \in ActionData : actionHandler(action, data)
    \/ handleIdle
    \/ UserActivity

SpecNoToken == Init /\ [][NextNoToken]_vars

(***************************************************************************)
(* Properties.                                                             *)
(***************************************************************************)
\* A step of the handler of the events of one kind: every handler records its
\* event, and only Tick moves the clock.
HandlerStep(kind) == nowMs' = nowMs /\ lastEvent'.kind = kind /\ vars' # vars

\* The token of the last storeToken is still good: the clock has not reached
\* its expire timestamp (seconds).
StoredValid == stored # Undefined /\ nowMs < stored.expire * 1000

\* C1: getToken returns the stored token exactly while a token is stored and
\* the current time is before the stored expire timestamp, and false
\* otherwise, from the very millisecond of the expire timestamp on.
C1_GetTokenUntilExpiry ==
    getToken(localStorage, nowMs) = IF StoredValid THEN stored.token ELSE False

\* A reconnect is refused in the very second the stored token expires.
C1_Witness ==
    /\ lastEvent.kind = "reconnect"
    /\ alerted
    /\ stored # Undefined
    /\ nowMs = stored.expire * 1000

\* C2: the setup effect, started with a token stored for another
\* configuration, clears the three entries and requests a new token; nothing
\* is emitted and no handler runs before the setup effect.
C2_OtherConfigurationCleared ==
    /\ [](pc = "start" => emitted = << >> /\ lastEvent.kind = "none")
    /\ [][ (pc = "start" /\ pc' = "running" /\ localStorage.uniqueId # << uniqueId >>)
            => /\ localStorage' = [token |-> Null, expire |-> Null, uniqueId |-> Null]
               /\ emitted' = << [name |-> "GetToken", uniqueId |-> uniqueId] >> ]_vars

\* The setup effect found an unexpired token of the other configuration and
\* has cleared it.
C2_Witness ==
    /\ lastEvent.kind = "mount"
    /\ stored = Undefined
    /\ localStorage = EmptyStorage
    /\ emitted = << GetTokenMsg(uniqueId) >>

\* C3: the setup effect emits exactly one message: ClientReady with the stored
\* token if that token is still good, GetToken with the uniqueId otherwise.
C3_OneMessageAtStart ==
    [][ (pc = "start" /\ pc' = "running")
        => /\ Len(emitted') = 1
           /\ IF StoredValid'
              THEN emitted'[1] = [name |-> "ClientReady", token |-> stored'.token]
              ELSE emitted'[1] = [name |-> "GetToken", uniqueId |-> uniqueId] ]_vars

\* The setup effect resumed with a stored token.
C3_Witness ==
    /\ lastEvent.kind = "mount"
    /\ StoredValid
    /\ emitted = << ClientReadyMsg(stored.token) >>

\* C4: the Token handler leaves the received token, its expire timestamp and
\* the uniqueId in localStorage, whatever was there, and emits one ClientReady
\* with the received token.
C4_TokenStoredThenReady ==
    lastEvent.kind = "Token"
    => /\ localStorage.token = << lastEvent.data.token >>
       /\ ParseInt(localStorage.expire) = << lastEvent.data.expire >>
       /\ localStorage.uniqueId = << uniqueId >>
       /\ emitted = << [name |-> "ClientReady", token |-> lastEvent.data.token] >>
       /\ (nowMs < lastEvent.data.expire * 1000
             => getToken(localStorage, nowMs) = lastEvent.data.token)

\* A Token message with a two digit expire timestamp has been handled.
C4_Witness ==
    /\ lastEvent.kind = "Token"
    /\ lastEvent.data.expire = MaxExpire
    /\ emitted = << ClientReadyMsg(lastEvent.data.token) >>

\* C5: a reconnect with no good token raises the alert and emits nothing; a
\* reconnect with a good token emits one ClientReady with that token.
C5_ReconnectReadsToken ==
    [][ HandlerStep("reconnect")
        => IF StoredValid
           THEN ~alerted' /\ emitted' = << [name |-> "ClientReady", token |-> stored.token] >>
           ELSE alerted' /\ emitted' = << >> ]_vars

\* A reconnect was refused for want of a token.
C5_Witness ==
    /\ lastEvent.kind = "reconnect"
    /\ stored = Undefined
    /\ alerted
    /\ emitted = << >>

\* C6: handleAction without a good token raises the alert and does nothing
\* else: no message, no reset of the idle timer, localStorage and the machine
\* state and configuration as they were.
C6_ActionDeniedNoEffect ==
    [][ (HandlerStep("action") /\ ~StoredValid)
        => /\ alerted'
           /\ emitted' = << >>
           /\ UNCHANGED << idleTimer, localStorage, stored, machineState, boxConfig,
                           lastSend >> ]_vars

\* An action was refused after the idle timer had expired, and the timer is
\* still expired.
C6_Witness ==
    /\ lastEvent.kind = "action"
    /\ alerted
    /\ emitted = << >>
    /\ idleTimer.mounted
    /\ idleTimer.idle

\* C7: handleAction with a good token emits exactly one ClientEvent: for the
\* action reset a Reset with the token only, for any other action an Action
\* with the token, the action and the data.
C7_OneClientEvent ==
    [][ (HandlerStep("action") /\ StoredValid)
        => emitted' =
             << IF lastEvent'.action = "reset"
                THEN [name |-> "ClientEvent",
                      event |-> [name |-> "Reset", token |-> stored.token]]
                ELSE [name |-> "ClientEvent",
                      event |-> [name |-> "Action", action |-> lastEvent'.action,
                                 token |-> stored.token, data |-> lastEvent'.data]] >> ]_vars

\* A reset action called with data went out as a Reset.
C7_Witness ==
    /\ lastEvent.kind = "action"
    /\ lastEvent.action = "reset"
    /\ lastEvent.data # Undefined
    /\ Len(emitted) = 1
    /\ emitted[1].event.name = "Reset"

\* C8: handleAction with a good token restarts the idle countdown in full, so
\* the idle timer never expires sooner than one inactivity timeout after the
\* last action sent.
C8_ActionResetsCountdown ==
    /\ [][ (HandlerStep("action") /\ StoredValid)
            => /\ ~idleTimer'.idle
               /\ idleTimer'.deadline = nowMs + inactivityTimeOut ]_vars
    /\ [][ (HandlerStep("idle") /\ lastSend # NoSend)
            => nowMs >= lastSend + inactivityTimeOut ]_vars

\* An action sent after the countdown had started has put the deadline off.
C8_Witness ==
    /\ lastEvent.kind = "action"
    /\ emitted # << >>
    /\ nowMs > StartMs
    /\ ~idleTimer.idle
    /\ idleTimer.deadline = nowMs + inactivityTimeOut

\* C9, as claimed: when the idle timer expires on the initial step, nothing is
\* emitted and the countdown restarts.
C9_Original ==
    [][ (HandlerStep("idle") /\ machineState.step = "initial")
        => /\ emitted' = << >>
           /\ ~idleTimer'.idle
           /\ idleTimer'.deadline = nowMs + inactivityTimeOut ]_vars

\* C9, amended: when the idle timer expires on the initial step and there is
\* a good token, nothing is emitted, no alert is raised and the countdown
\* restarts; without a good token the alert is raised, nothing is emitted and
\* the timer stays expired.
C9_InitialStepRestarts ==
    [][ (HandlerStep("idle") /\ machineState.step = "initial")
        => IF StoredValid
           THEN /\ emitted' = << >>
                /\ ~alerted'
                /\ ~idleTimer'.idle
                /\ idleTimer'.deadline = nowMs + inactivityTimeOut
           ELSE /\ emitted' = << >>
                /\ alerted'
                /\ idleTimer'.idle ]_vars

\* The idle timer expired on the initial step and was restarted.
C9_Witness ==
    /\ lastEvent.kind = "idle"
    /\ machineState.step = "initial"
    /\ ~alerted
    /\ emitted = << >>
    /\ ~idleTimer.idle
    /\ idleTimer.deadline = nowMs + inactivityTimeOut

\* C10, as claimed: when the idle timer expires on another step than the
\* initial one, a Reset with the current token is emitted.
C10_Original ==
    [][ (HandlerStep("idle") /\ machineState.step # "initial")
        => /\ Len(emitted') = 1
           /\ emitted'[1].name = "ClientEvent"
           /\ emitted'[1].event.name = "Reset" ]_vars

\* C10, amended: when the idle timer expires on another step than the initial
\* one and there is a good token, exactly one Reset with that token is
\* emitted; without a good token the alert is raised and nothing is emitted.
C10_IdleEmitsReset ==
    [][ (HandlerStep("idle") /\ machineState.step # "initial")
        => IF StoredValid
           THEN /\ ~alerted'
                /\ emitted' = << [name |-> "ClientEvent",
                                  event |-> [name |-> "Reset", token |-> stored.token]] >>
           ELSE /\ alerted'
                /\ emitted' = << >> ]_vars

\* The idle timer expired on the login step and the Reset went out.
C10_Witness ==
    /\ lastEvent.kind = "idle"
    /\ machineState.step # "initial"
    /\ Len(emitted) = 1
    /\ emitted[1].event.name = "Reset"
    /\ idleTimer.idle

\* C11, as claimed: handleIdle emits at most one Reset in a period without a
\* state update and without an action sent.
C11_Original == idleResets.period <= 1

\* C11, amended: handleIdle emits at most one Reset in a period without a
\* state update, without an action sent and without the user touching the
\* document: the timer that has expired does not expire again before one of
\* these restarts it.
C11_OneResetPerIdlePeriod ==
    /\ [](idleResets.quiet <= 1)
    /\ [][ (HandlerStep("idle") /\ Len(emitted') = 1)
            => ~idleTimer.idle /\ idleTimer'.idle /\ idleResets.quiet = 0 ]_vars
    /\ [][ (idleTimer.idle /\ ~idleTimer'.idle)
            => lastEvent'.kind \in {"UpdateState", "action", "activity"} ]_vars

\* handleIdle has sent its Reset after the user had touched the document
\* while the countdown was running.
C11_Witness ==
    /\ lastEvent.kind = "idle"
    /\ idleResets.quiet = 1
    /\ idleTimer.idle
    /\ idleTimer.deadline > StartMs + inactivityTimeOut
    /\ Len(emitted) = 1

\* C12: when the idle timer expires and there is no good token, the alert is
\* raised, nothing is emitted and the timer is not restarted, on any step.
C12_IdleDenied ==
    [][ (HandlerStep("idle") /\ ~StoredValid)
        => /\ alerted'
           /\ emitted' = << >>
           /\ idleTimer' = [idleTimer EXCEPT !.idle = TRUE]
           /\ UNCHANGED << localStorage, machineState, idleResets >> ]_vars

\* The idle timer expired on the login step after the token had expired.
C12_Witness ==
    /\ lastEvent.kind = "idle"
    /\ alerted
    /\ emitted = << >>
    /\ machineState.step # "initial"
    /\ stored # Undefined

\* A step that emits a ClientEvent.
EmitsClientEvent ==
    /\ nowMs' = nowMs
    /\ vars' # vars
    /\ Len(emitted') = 1
    /\ emitted'[1].name = "ClientEvent"

\* The countdown has been restarted in full.
Restarted == ~idleTimer'.idle /\ idleTimer'.deadline = nowMs + inactivityTimeOut

\* C13, as claimed: every state update and every ClientEvent emitted, the
\* Reset of handleIdle included, restarts the countdown in full.
C13_Original ==
    /\ [][ (HandlerStep("UpdateState") /\ idleTimer'.mounted) => Restarted ]_vars
    /\ [][ EmitsClientEvent => Restarted ]_vars

\* C13, amended: every state update and every ClientEvent emitted by
\* handleAction restarts the countdown in full; the Reset of handleIdle does
\* not: the timer stays expired.
C13_ActivityRestartsCountdown ==
    /\ [][ (HandlerStep("UpdateState") /\ idleTimer'.mounted) => Restarted ]_vars
    /\ [][ (EmitsClientEvent /\ lastEvent'.kind = "action") => Restarted ]_vars
    /\ [][ (EmitsClientEvent /\ lastEvent'.kind # "action")
            => lastEvent'.kind = "idle" /\ idleTimer'.idle ]_vars

\* A state update has restarted a countdown that was under way.
C13_Witness ==
    /\ lastEvent.kind = "UpdateState"
    /\ idleTimer.mounted
    /\ ~idleTimer.idle
    /\ nowMs > StartMs
    /\ idleTimer.deadline = nowMs + inactivityTimeOut

\* C14: the machine state is the data of the last UpdateState and the
\* configuration the data of the last Configuration; no other handler changes
\* either.
C14_StateFromEngineOnly ==
    /\ [][ machineState' = IF HandlerStep("UpdateState") THEN lastEvent'.data
                           ELSE machineState ]_vars
    /\ [][ boxConfig' = IF HandlerStep("Configuration") THEN lastEvent'.data
                        ELSE boxConfig ]_vars

\* handleIdle has sent its Reset and the machine is still on the login step.
C14_Witness ==
    /\ lastEvent.kind = "idle"
    /\ Len(emitted) = 1
    /\ machineState.step = "loginScan"
    /\ boxConfig # Undefined

\* C15: a Configuration starts the import of the bundle of its default
\* language if that is da or en, and of the en bundle otherwise, and raises no
\* alert; the translations that become active are those of that bundle.
C15_BundleOfDefaultLanguage ==
    /\ [][ HandlerStep("Configuration")
            => LET code == lastEvent'.data.defaultLanguageCode
                   file == IF code \in {"da", "en"} THEN code ELSE "en"
               IN  /\ ~alerted'
                   /\ \E load \in pendingLoads' :
                         load.bundle = file /\ load.languageCode = code
                   /\ \A load \in pendingLoads' \ pendingLoads :
                         load.bundle = file /\ load.languageCode = code ]_vars
    /\ [][ HandlerStep("translations")
            => /\ ~alerted'
               /\ \E load \in pendingLoads \ pendingLoads' :
                     messages' = [file |-> load.bundle] ]_vars
    /\ [](messages # Undefined => messages.file \in {"da", "en"})

\* The en bundle is active after a Configuration with the language fr.
C15_Witness ==
    /\ lastEvent.kind = "translations"
    /\ boxConfig # Undefined
    /\ boxConfig.defaultLanguageCode = "fr"
    /\ messages = [file |-> "en"]
    /\ pendingLoads = {}

\* C16, as claimed: once translations are active, the language given to
\* IntlProvider is the language of the active bundle, so en when the
\* configuration's language is not supported.
C16_Original == messages # Undefined => language = messages.file

\* The three entries of localStorage are all there or all missing.
AllOrNone ==
    \/ localStorage.token = Null /\ localStorage.expire = Null
          /\ localStorage.uniqueId = Null
    \/ localStorage.token # Null /\ localStorage.expire # Null
          /\ localStorage.uniqueId # Null

\* C17: the three entries of localStorage are all there or all missing, and
\* once the setup effect has run the uniqueId entry, if there, is the uniqueId
\* of the configuration loaded.
C17_EntriesTogether ==
    /\ AllOrNone
    /\ (pc = "running" /\ localStorage.uniqueId # Null)
          => localStorage.uniqueId = << uniqueId >>

\* A token has been stored in a session that started with the token of
\* another configuration or with none.
C17_Witness ==
    /\ lastEvent.kind = "Token"
    /\ localStorage.uniqueId = << uniqueId >>
    /\ localStorage.token # Null
    /\ localStorage.expire # Null

\* C18: GetToken is emitted by the setup effect only, and a ClientEvent only
\* by the handler of the action it carries or by handleIdle: no handler
\* emits more than one message, requests a token again or sends an action
\* again.
C18_NoRetries ==
    /\ Len(emitted) <= 1
    /\ \A i \in 1..Len(emitted) :
          /\ emitted[i].name = "GetToken" => lastEvent.kind = "mount"
          /\ emitted[i].name = "ClientEvent"
                => \/ /\ lastEvent.kind = "idle"
                      /\ emitted[i].event.name = "Reset"
                   \/ /\ lastEvent.kind = "action"
                      /\ IF lastEvent.action = "reset"
                         THEN emitted[i].event.name = "Reset"
                         ELSE /\ emitted[i].event.name = "Action"
                              /\ emitted[i].event.action = lastEvent.action
                              /\ emitted[i].event.data = lastEvent.data

\* A reconnect after the token had expired was refused, and no token was
\* requested.
C18_Witness ==
    /\ lastEvent.kind = "reconnect"
    /\ alerted
    /\ stored # Undefined
    /\ nowMs > stored.expire * 1000
    /\ emitted = << >>

\* The session started with a good token: the entries the setup effect left
\* had not expired at the start.
StartedWithToken == stored # Undefined /\ StartMs < stored.expire * 1000

\* C19: when the session starts without a good token and no Token ever
\* arrives, no ClientReady and no ClientEvent is ever emitted.
C19_PreSession ==
    (pc = "running" /\ ~StartedWithToken)
    => \A i \in 1..Len(emitted) : emitted[i].name \notin {"ClientReady", "ClientEvent"}

\* An action of the user was refused in a session that started with an
\* expired token.
C19_Witness ==
    /\ lastEvent.kind = "action"
    /\ alerted
    /\ stored # Undefined
    /\ ~StartedWithToken
    /\ emitted = << >>

\* The token a ClientReady or ClientEvent carries.
TokenOf(msg) == IF msg.name = "ClientReady" THEN msg.token ELSE msg.event.token

\* C20, as claimed: every ClientReady and every ClientEvent carries the token
\* getToken returns when it is sent: stored for this configuration and not
\* expired.
C20_Original ==
    [][ (nowMs' = nowMs /\ vars' # vars)
        => \A i \in 1..Len(emitted') :
             emitted'[i].name \in {"ClientReady", "ClientEvent"}
             => /\ StoredValid'
                /\ stored'.uniqueId = uniqueId
                /\ TokenOf(emitted'[i]) = stored'.token ]_vars

\* C20, amended: every ClientReady and every ClientEvent carries the token
\* stored for this configuration; it has not expired when the setup effect,
\* the reconnect handler, handleAction or handleIdle send it, while the Token
\* handler sends the token it has just stored whatever its expire timestamp.
C20_TokenSentIsStored ==
    [][ (nowMs' = nowMs /\ vars' # vars)
        => \A i \in 1..Len(emitted') :
             emitted'[i].name \in {"ClientReady", "ClientEvent"}
             => /\ stored' # Undefined
                /\ stored'.uniqueId = uniqueId
                /\ TokenOf(emitted'[i]) = stored'.token
                /\ lastEvent'.kind # "Token" => StoredValid' ]_vars

\* The Token handler has sent a token that had expired already.
C20_Witness ==
    /\ lastEvent.kind = "Token"
    /\ nowMs >= lastEvent.data.expire * 1000
    /\ emitted = << ClientReadyMsg(lastEvent.data.token) >>
    /\ stored.expire = lastEvent.data.expire

\* C21, as claimed: once every import has resolved, the active bundle and
\* language are those that the most recently received Configuration selects,
\* in whatever order the imports resolved.  (The language is accepted both
\* as the configuration's code and as the code of the selected bundle, so
\* that only the order of the resolutions can break the statement.)
C21_Original ==
    (boxConfig # Undefined /\ pendingLoads = {})
    => LET code == boxConfig.defaultLanguageCode
           file == IF code \in {"da", "en"} THEN code ELSE "en"
       IN  /\ messages = [file |-> file]
           /\ language \in {code, file}

\* C22, as claimed: in every state exactly one of the loading screen and the
\* main UI is shown, the loading screen until a Configuration and an
\* UpdateState have both been received and the main UI from then on.
C22_Original ==
    \/ /\ LoadingShown
       /\ ~MainShown
       /\ (machineState = Undefined \/ boxConfig = Undefined)
    \/ /\ MainShown
       /\ ~LoadingShown
       /\ machineState # Undefined
       /\ boxConfig # Undefined

\* A step of the handler of a step component for the inputs of one kind:
\* every such handler records its input.
InputStep(kind) == lastInput'.kind = kind /\ vars' # vars

\* C23, as claimed: in ScanPasswordLogin a keydown of Enter sends exactly one
\* login action with the username scanned last and the password as it is
\* now, once a username has been scanned, and sends nothing before.
C23_Original ==
    [][ (InputStep("keydown") /\ lastInput'.key = "Enter")
        => IF usernameScanned
           THEN /\ lastEvent' = [kind |-> "action", action |-> "login",
                                 data |-> [username |-> username,
                                           password |-> password]]
                /\ StoredValid => Len(emitted') = 1
           ELSE /\ lastEvent'.kind # "action"
                /\ emitted' = << >> ]_vars

\* C24: in ScanPasswordLogin a scanned code of command length sends the
\* action reset if it is the finish command and otherwise changes nothing
\* and sends nothing; a code of another length becomes the username, marks
\* it as scanned and sends nothing; no scan sends a login action.
C24_ScanCommandOrUsername ==
    [][ InputStep("scan")
        => LET code == lastInput'.code
           IN  /\ lastEvent'.kind = "action" => lastEvent'.action # "login"
               /\ IF Len(code) = barcodeConstants.BARCODE_COMMAND_LENGTH
                  THEN /\ UNCHANGED << username, usernameScanned, password >>
                       /\ IF code = barcodeConstants.BARCODE_COMMAND_FINISH
                          THEN /\ lastEvent' = [kind |-> "action", action |-> "reset",
                                                data |-> Undefined]
                               /\ StoredValid
                                  => emitted' = << [name |-> "ClientEvent",
                                                    event |-> [name |-> "Reset",
                                                               token |-> stored.token]] >>
                          ELSE /\ lastEvent'.kind # "action"
                               /\ emitted' = << >>
                  ELSE /\ username' = code
                       /\ usernameScanned'
                       /\ lastEvent'.kind # "action"
                       /\ emitted' = << >> ]_vars

\* The finish command was scanned after a username and a password were
\* entered: a Reset went out and the username is still there.
C24_Witness ==
    /\ lastInput.kind = "scan"
    /\ lastInput.code = barcodeConstants.BARCODE_COMMAND_FINISH
    /\ Len(lastInput.code) = barcodeConstants.BARCODE_COMMAND_LENGTH
    /\ usernameScanned
    /\ username = "C023648674"
    /\ password # ""
    /\ lastEvent.kind = "action"
    /\ lastEvent.action = "reset"
    /\ Len(emitted) = 1

\* The login method that an entry's type selects.
MethodOf(type) ==
    IF type = "loginScanUsernamePassword" THEN "login_barcode_password"
    ELSE "login_barcode"

\* C25: ChangeLoginMethod offers one entry for each of the login methods
\* login_barcode_password and login_barcode that the configuration enables,
\* and no other entry; a click on an entry calls the action handler once,
\* with selectLoginMethod and the entry's type, and the method of that type
\* is enabled.
C25_EnabledMethodsOffered ==
    /\ [](component = "ChangeLoginMethod"
          => LET methods == boxConfig.loginSessionMethods
                 entries == components(methods)
                 offered == {entries[i].type : i \in DOMAIN entries}
             IN  /\ offered \subseteq {"loginScanUsernamePassword", "loginScanUsername"}
                 /\ Cardinality(offered) = Len(entries)
                 /\ \A type \in {"loginScanUsernamePassword", "loginScanUsername"} :
                       type \in offered
                       <=> \E i \in DOMAIN methods : methods[i] = MethodOf(type))
    /\ [][ InputStep("click")
            => /\ lastEvent' = [kind |-> "action", action |-> "selectLoginMethod",
                                data |-> [loginMethod |-> lastInput'.type]]
               /\ \E i \in DOMAIN boxConfig.loginSessionMethods :
                     boxConfig.loginSessionMethods[i] = MethodOf(lastInput'.type)
               /\ StoredValid
                  => emitted' = << [name |-> "ClientEvent",
                                    event |-> [name |-> "Action",
                                               action |-> "selectLoginMethod",
                                               token |-> stored.token,
                                               data |-> [loginMethod |->
                                                           lastInput'.type]]] >> ]_vars

\* The barcode login was selected where it is the only method enabled
\* besides one that ChangeLoginMethod does not know.
C25_Witness ==
    /\ component = "ChangeLoginMethod"
    /\ boxConfig.loginSessionMethods = << "login_other", "login_barcode" >>
    /\ lastInput = [kind |-> "click", type |-> "loginScanUsername"]
    /\ lastEvent.kind = "action"
    /\ lastEvent.action = "selectLoginMethod"
    /\ Len(emitted) = 1
====
